---------------------------- MODULE Spec2Model ----------------------------
(***************************************************************************)
(* notihub: the Pinpoint push client (message builders, envelope, the      *)
(* endpoint look-ups) and the Twilio SMS adapter, as a state machine whose *)
(* actions are the public operations.  Every operation is one action: it   *)
(* builds its payload, makes its transport call (whose outcome the         *)
(* environment chooses) and leaves the outcome for the caller.             *)
(***************************************************************************)
EXTENDS Integers, Sequences, FiniteSets, TLC

VARIABLES
    op,       \* the operation in progress for the caller ("idle" between calls)
    args,     \* the arguments of that invocation
    calls,    \* the transport calls made during that invocation, in order
    result,   \* what reached the caller: <<"return", v>> or <<"raise", e>>
    twilio    \* the TwilioNotifier instance the caller holds, or None

vars == <<op, args, calls, result, twilio>>

(***************************************************************************)
(* Python values.  Every value is a tagged tuple, so that None, "", 0 and  *)
(* {} stay distinct values with Python's truthiness.                       *)
(***************************************************************************)
None == <<"none">>
PyStr(s) == <<"str", s>>
PyInt(n) == <<"int", n>>
PyBool(b) == <<"bool", b>>
PyDict(f) == <<"dict", f>>

EmptyMap == [k \in {} |-> None]

\* bool(v): None, "", 0, False and {} are falsy.
Truthy(v) ==
    CASE v[1] = "none" -> FALSE
      [] v[1] = "str"  -> v[2] # ""
      [] v[1] = "int"  -> v[2] # 0
      [] v[1] = "bool" -> v[2]
      [] v[1] = "dict" -> DOMAIN v[2] # {}
      [] OTHER         -> TRUE

\* a or b
PyOr(a, b) == IF Truthy(a) THEN a ELSE b

\* k in d, d[k], and d[k] = v on a copy, for a dict value d
Has(d, k) == k \in DOMAIN d[2]
Get(d, k) == d[2][k]
DictSet(d, k, v) ==
    PyDict([x \in DOMAIN d[2] \cup {k} |-> IF x = k THEN v ELSE d[2][x]])

\* {**d, **e} and d.update(e): the keys of e win
DictUpdate(d, e) ==
    PyDict([x \in DOMAIN d[2] \cup DOMAIN e[2] |->
                IF x \in DOMAIN e[2] THEN e[2][x] ELSE d[2][x]])

(***************************************************************************)
(* json.dumps / json.loads.  The encoded document is a str whose content   *)
(* is a JSON text, kept as the tree of its JSON values: None becomes null, *)
(* a dict an object, a str a string, an int a number.                      *)
(***************************************************************************)
RECURSIVE JsonEncode(_)
JsonEncode(v) ==
    CASE v[1] = "none" -> <<"null">>
      [] v[1] = "str"  -> <<"string", v[2]>>
      [] v[1] = "int"  -> <<"number", v[2]>>
      [] v[1] = "bool" -> <<"boolean", v[2]>>
      [] v[1] = "dict" -> <<"object", [k \in DOMAIN v[2] |-> JsonEncode(v[2][k])]>>

RECURSIVE JsonDecode(_)
JsonDecode(j) ==
    CASE j[1] = "null"    -> None
      [] j[1] = "string"  -> PyStr(j[2])
      [] j[1] = "number"  -> PyInt(j[2])
      [] j[1] = "boolean" -> PyBool(j[2])
      [] j[1] = "object"  -> PyDict([k \in DOMAIN j[2] |-> JsonDecode(j[2][k])])

json_dumps(v) == <<"json", JsonEncode(v)>>
json_loads(s) == JsonDecode(s[2])

(***************************************************************************)
(* PinpointClient: the message builders.                                   *)
(***************************************************************************)
\* As _prepare_custom_data, with setdefault in place of update: a key the
\* caller supplied is kept.
_prepare_custom_data_setdefault(custom_data, deep_link_url, image_url) ==
    LET data == PyOr(custom_data, PyDict(EmptyMap))
    IN  DictUpdate(PyDict("deeplink" :> deep_link_url @@ "image_url" :> image_url), data)

_prepare_custom_data(custom_data, deep_link_url, image_url) ==
    LET data == PyOr(custom_data, PyDict(EmptyMap))
    IN  DictUpdate(data, PyDict("deeplink" :> deep_link_url @@ "image_url" :> image_url))

\* message["Url"] = deep_link_url, only for a truthy deep_link_url
WithUrl(message, deep_link_url) ==
    IF Truthy(deep_link_url) THEN DictSet(message, "Url", deep_link_url) ELSE message

_build_apns_message(title, body, action, deep_link_url, image_url, silent_push, custom_data) ==
    LET aps0 == PyDict("sound" :> PyStr("default"))
        aps1 == IF silent_push
                    THEN DictSet(aps0, "content-available", PyInt(1))
                    ELSE DictSet(aps0, "alert", PyDict("title" :> title @@ "body" :> body))
        aps_payload == IF Truthy(image_url)
                           THEN DictSet(aps1, "mutable-content", PyInt(1))
                           ELSE aps1
        payload_root == DictUpdate(PyDict("aps" :> aps_payload), custom_data)
        message == PyDict("Action" :> action @@ "RawContent" :> json_dumps(payload_root))
    IN  WithUrl(message, deep_link_url)

\* As _build_gcm_message, testing time_to_live with "if time_to_live:": a
\* value of 0 is dropped.
_build_gcm_message_ttl_truthy(title, body, action, deep_link_url, image_url, silent_push, custom_data, time_to_live, priority) ==
    LET payload_data == DictUpdate(custom_data, PyDict("title" :> title @@ "body" :> body))
        gcm0 == PyDict("data" :> payload_data)
        notification0 == PyDict("title" :> title @@ "body" :> body)
        notification == IF Truthy(image_url)
                            THEN DictSet(notification0, "image", image_url)
                            ELSE notification0
        gcm1 == IF silent_push
                    THEN DictSet(gcm0, "content_available", PyInt(1))
                    ELSE DictSet(gcm0, "notification", notification)
        gcm2 == IF Truthy(priority) THEN DictSet(gcm1, "priority", priority) ELSE gcm1
        gcm_payload == IF Truthy(time_to_live)
                           THEN DictSet(gcm2, "time_to_live", time_to_live)
                           ELSE gcm2
        message == PyDict("Action" :> action @@ "RawContent" :> json_dumps(gcm_payload))
    IN  WithUrl(message, deep_link_url)

_build_gcm_message(title, body, action, deep_link_url, image_url, silent_push, custom_data, time_to_live, priority) ==
    LET payload_data == DictUpdate(custom_data, PyDict("title" :> title @@ "body" :> body))
        gcm0 == PyDict("data" :> payload_data)
        notification0 == PyDict("title" :> title @@ "body" :> body)
        notification == IF Truthy(image_url)
                            THEN DictSet(notification0, "image", image_url)
                            ELSE notification0
        gcm1 == IF silent_push
                    THEN DictSet(gcm0, "content_available", PyInt(1))
                    ELSE DictSet(gcm0, "notification", notification)
        gcm2 == IF Truthy(priority) THEN DictSet(gcm1, "priority", priority) ELSE gcm1
        gcm_payload == IF time_to_live # None
                           THEN DictSet(gcm2, "time_to_live", time_to_live)
                           ELSE gcm2
        message == PyDict("Action" :> action @@ "RawContent" :> json_dumps(gcm_payload))
    IN  WithUrl(message, deep_link_url)

\* As _build_default_message, without the Url.
_build_default_message_no_url(title, body, action, deep_link_url) ==
    PyDict("Action" :> action @@ "Title" :> title @@ "Body" :> body)

_build_default_message(title, body, action, deep_link_url) ==
    WithUrl(PyDict("Action" :> action @@ "Title" :> title @@ "Body" :> body),
            deep_link_url)

\* action = "DEEP_LINK" if deep_link_url else "OPEN_APP"
PushAction(deep_link_url) ==
    IF Truthy(deep_link_url) THEN PyStr("DEEP_LINK") ELSE PyStr("OPEN_APP")

\* As EndpointsMap, over range(1, len(endpoint_ids)): the first id is skipped.
EndpointsMap_skip_first(endpoint_ids) ==
    PyDict([e \in {endpoint_ids[i] : i \in 2..Len(endpoint_ids)} |-> PyDict(EmptyMap)])

\* {endpoint_id: {} for endpoint_id in endpoint_ids}
EndpointsMap(endpoint_ids) ==
    PyDict([e \in {endpoint_ids[i] : i \in 1..Len(endpoint_ids)} |-> PyDict(EmptyMap)])

\* the MessageRequest assembled by send_pinpoint_push_notification
MessageRequest(a) ==
    LET action == PushAction(a.deep_link_url)
        processed_custom_data ==
            _prepare_custom_data(a.custom_data, a.deep_link_url, a.image_url)
        apns_message ==
            _build_apns_message(a.title, a.body, action, a.deep_link_url, a.image_url,
                                a.silent_push, processed_custom_data)
        gcm_message ==
            _build_gcm_message(a.title, a.body, action, a.deep_link_url, a.image_url,
                               a.silent_push, processed_custom_data,
                               a.time_to_live, a.priority)
        default_message ==
            _build_default_message(a.title, a.body, action, a.deep_link_url)
    IN  PyDict("Endpoints" :> EndpointsMap(a.endpoint_ids) @@
               "MessageConfiguration" :>
                   PyDict("APNSMessage" :> apns_message @@
                          "GCMMessage" :> gcm_message @@
                          "DefaultPushNotificationMessage" :> default_message))

(***************************************************************************)
(* The transports.  They are external: a call either returns a response    *)
(* or raises, and which one is the environment's choice.                   *)
(***************************************************************************)
Return(v) == <<"return", v>>
Raise(e) == <<"raise", e>>
Returned(r) == r[1] = "return"
Raised(r) == r[1] = "raise"

NotFoundException == [type |-> "NotFoundException", message |-> "Resource not found"]
TooManyRequestsException == [type |-> "TooManyRequestsException", message |-> "Too many requests"]
PinpointFailures == {NotFoundException, TooManyRequestsException}
PinpointResponses == {PyDict("RequestId" :> PyStr("req-1"))}
PinpointOutcomes ==
    {Return(v) : v \in PinpointResponses} \cup {Raise(e) : e \in PinpointFailures}

(***************************************************************************)
(* PinpointClient: the operations.  Each yields the transport calls it     *)
(* made and what reached its caller, given the transport's outcome.        *)
(***************************************************************************)
\* As send_pinpoint_push_notification, sending once more when the transport fails.
send_pinpoint_push_notification_retry(a, outcome) ==
    LET call == [method |-> "send_messages",
                 ApplicationId |-> a.application_id,
                 MessageRequest |-> MessageRequest(a)]
    IN  [calls  |-> IF Raised(outcome) THEN <<call, call>> ELSE <<call>>,
         result |-> outcome]

send_pinpoint_push_notification(a, outcome) ==
    LET message_request == MessageRequest(a)
    IN  [calls  |-> << [method |-> "send_messages",
                        ApplicationId |-> a.application_id,
                        MessageRequest |-> message_request] >>,
         result |-> outcome]

\* As CatchNotFound, with a bare "except Exception as e".
CatchEveryFailure(outcome) ==
    IF Raised(outcome)
        THEN Return(PyDict("error" :> PyStr(outcome[2].message)))
        ELSE outcome

\* except self.pinpoint_client.exceptions.NotFoundException as e:
\*     return {"error": e.response["Error"]["Message"]}
CatchNotFound(outcome) ==
    IF Raised(outcome) /\ outcome[2].type = "NotFoundException"
        THEN Return(PyDict("error" :> PyStr(outcome[2].message)))
        ELSE outcome

get_pinpoint_endpoint(application_id, endpoint_id, outcome) ==
    [calls  |-> << [method |-> "get_endpoint",
                    ApplicationId |-> application_id,
                    EndpointId |-> endpoint_id] >>,
     result |-> CatchNotFound(outcome)]

get_pinpoint_user_endpoints(application_id, user_id, outcome) ==
    [calls  |-> << [method |-> "get_user_endpoints",
                    ApplicationId |-> application_id,
                    UserId |-> user_id] >>,
     result |-> CatchNotFound(outcome)]

(***************************************************************************)
(* TwilioNotifier: the SMS-gateway adapter.  An instance holds its         *)
(* credentials and its origin number; its client is the Twilio transport.  *)
(***************************************************************************)
ValueError(msg) == [type |-> "ValueError", message |-> msg]
NotImplementedError == [type |-> "NotImplementedError", message |-> ""]
TwilioRestException == [type |-> "TwilioRestException", message |-> "Unable to create record"]

TwilioInstance(account_sid, auth_token, twilio_phone_number) ==
    <<"TwilioNotifier", [account_sid |-> account_sid,
                         auth_token |-> auth_token,
                         twilio_phone_number |-> twilio_phone_number]>>

\* The message of the construction failure, by the credentials that are missing.
MissingCredentialsMessage(account_sid, auth_token) ==
    CASE ~Truthy(account_sid) /\ ~Truthy(auth_token) ->
             "Twilio Account SID and Auth Token must be provided."
      [] ~Truthy(account_sid) -> "Twilio Account SID must be provided."
      [] OTHER -> "Twilio Auth Token must be provided."

\* As TwilioNotifier, testing the credentials with "is None": an empty
\* string passes.
TwilioNotifier_none_only(account_sid, auth_token, twilio_phone_number) ==
    IF account_sid = None \/ auth_token = None
        THEN Raise(ValueError(MissingCredentialsMessage(account_sid, auth_token)))
        ELSE Return(TwilioInstance(account_sid, auth_token, twilio_phone_number))

\* TwilioNotifier(account_sid=..., auth_token=..., twilio_phone_number=...)
TwilioNotifier(account_sid, auth_token, twilio_phone_number) ==
    IF ~Truthy(account_sid) \/ ~Truthy(auth_token)
        THEN Raise(ValueError(MissingCredentialsMessage(account_sid, auth_token)))
        ELSE Return(TwilioInstance(account_sid, auth_token, twilio_phone_number))

\* As twilio_send_sms_notification, validating the origin number after the
\* transport call.
twilio_send_sms_notification_late_check(self, phone_number, message, outcome) ==
    LET call == [method |-> "create_message",
                 from_ |-> self[2].twilio_phone_number,
                 to |-> phone_number,
                 body |-> message]
    IN  [calls  |-> <<call>>,
         result |-> IF ~Truthy(self[2].twilio_phone_number)
                        THEN Raise(ValueError("Twilio phone number must be provided for sending SMS."))
                        ELSE IF Returned(outcome) THEN Return(Get(outcome[2], "sid"))
                        ELSE outcome]

twilio_send_sms_notification(self, phone_number, message, outcome) ==
    IF ~Truthy(self[2].twilio_phone_number)
        THEN [calls  |-> << >>,
              result |-> Raise(ValueError("Twilio phone number must be provided for sending SMS."))]
        ELSE [calls  |-> << [method |-> "create_message",
                             from_ |-> self[2].twilio_phone_number,
                             to |-> phone_number,
                             body |-> message] >>,
              result |-> IF Returned(outcome) THEN Return(Get(outcome[2], "sid")) ELSE outcome]

twilio_send_email_notification(self, email) ==
    [calls |-> << >>, result |-> Raise(NotImplementedError)]

\* As twilio_send_push_notification, with a body of "pass".
twilio_send_push_notification_noop(self, push) ==
    [calls |-> << >>, result |-> Return(None)]

twilio_send_push_notification(self, push) ==
    [calls |-> << >>, result |-> Raise(NotImplementedError)]

(***************************************************************************)
(* The inputs the callers draw from.                                       *)
(***************************************************************************)
MaxEndpoints == 2

ApplicationIds == {PyStr("app-1"), PyStr("app-2")}
EndpointIds == {"e1", "e2"}
UserIds == {PyStr("u1")}
Titles == {PyStr("Hi")}
Bodies == {PyStr("there")}
DeepLinkUrls == {None, PyStr(""), PyStr("app://home")}
ImageUrls == {None, PyStr(""), PyStr("http://x/y.png")}
TimesToLive == {None, PyInt(0), PyInt(60)}
Priorities == {None, PyStr(""), PyStr("high")}

\* What a caller may put under each custom_data key.
CustomValue ==
    "k"         :> PyStr("v") @@
    "deeplink"  :> PyStr("app://old") @@
    "image_url" :> PyStr("http://old/z.png") @@
    "aps"       :> PyDict("alert" :> PyStr("spoof")) @@
    "title"     :> PyStr("caller title")
CustomKeys == DOMAIN CustomValue
CustomDatas ==
    {None} \cup {PyDict([k \in S |-> CustomValue[k]]) : S \in SUBSET CustomKeys}

\* Maps that went through _prepare_custom_data before: a caller may pass one again.
EnrichedDatas ==
    {_prepare_custom_data(c, d, i) : c \in CustomDatas, d \in DeepLinkUrls, i \in ImageUrls}

EndpointIdLists == UNION {[1..n -> EndpointIds] : n \in 0..MaxEndpoints}

PushRequests ==
    [application_id : ApplicationIds,
     endpoint_ids   : EndpointIdLists,
     title          : Titles,
     body           : Bodies,
     deep_link_url  : DeepLinkUrls,
     image_url      : ImageUrls,
     custom_data    : CustomDatas,
     silent_push    : BOOLEAN,
     time_to_live   : TimesToLive,
     priority       : Priorities]

AccountSids == {None, PyStr(""), PyStr("AC123")}
AuthTokens == {None, PyStr(""), PyStr("token")}
TwilioPhoneNumbers == {None, PyStr("+15005550006")}
PhoneNumbers == {PyStr("+19702927873")}
SmsBodies == {PyStr("Test SMS message")}
TwilioOutcomes ==
    {Return(PyDict("sid" :> PyStr("SM1"))), Return(PyDict("sid" :> PyStr("SM2"))),
     Raise(TwilioRestException)}
EmailRequests ==
    [subject : {None, PyStr("Test")}, email_data : {PyDict(EmptyMap)},
     recipients : {<< >>, <<"a@x.io">>}, sender : {PyStr("")}, template : {PyStr("")}]
TwilioPushRequests ==
    [device : {None, PyStr("test_device")}, message : {PyStr("test_message")}]

(***************************************************************************)
(* The state machine.                                                      *)
(***************************************************************************)
Init ==
    /\ op = "idle"
    /\ args = [none |-> TRUE]
    /\ calls = << >>
    /\ result = Return(None)
    /\ twilio = None

SendPinpointPushNotification ==
    /\ op = "idle"
    /\ \E a \in PushRequests, outcome \in PinpointOutcomes :
        LET r == send_pinpoint_push_notification(a, outcome)
        IN  /\ op' = "send_pinpoint_push_notification"
            /\ args' = [request |-> a, outcome |-> outcome]
            /\ calls' = r.calls
            /\ result' = r.result
            /\ UNCHANGED twilio

PrepareCustomData ==
    /\ op = "idle"
    /\ \E c \in CustomDatas \cup EnrichedDatas, d \in DeepLinkUrls, i \in ImageUrls :
        /\ op' = "_prepare_custom_data"
        /\ args' = [custom_data |-> c, deep_link_url |-> d, image_url |-> i]
        /\ calls' = << >>
        /\ result' = Return(_prepare_custom_data(c, d, i))
        /\ UNCHANGED twilio

GetPinpointEndpoint ==
    /\ op = "idle"
    /\ \E app \in ApplicationIds, e \in EndpointIds, outcome \in PinpointOutcomes :
        LET r == get_pinpoint_endpoint(app, PyStr(e), outcome)
        IN  /\ op' = "get_pinpoint_endpoint"
            /\ args' = [application_id |-> app, endpoint_id |-> PyStr(e), outcome |-> outcome]
            /\ calls' = r.calls
            /\ result' = r.result
            /\ UNCHANGED twilio

GetPinpointUserEndpoints ==
    /\ op = "idle"
    /\ \E app \in ApplicationIds, u \in UserIds, outcome \in PinpointOutcomes :
        LET r == get_pinpoint_user_endpoints(app, u, outcome)
        IN  /\ op' = "get_pinpoint_user_endpoints"
            /\ args' = [application_id |-> app, user_id |-> u, outcome |-> outcome]
            /\ calls' = r.calls
            /\ result' = r.result
            /\ UNCHANGED twilio

TwilioConstruct ==
    /\ op = "idle"
    /\ \E sid \in AccountSids, token \in AuthTokens, phone \in TwilioPhoneNumbers :
        LET r == TwilioNotifier(sid, token, phone)
        IN  /\ op' = "TwilioNotifier"
            /\ args' = [account_sid |-> sid, auth_token |-> token,
                        twilio_phone_number |-> phone]
            /\ calls' = << >>
            /\ result' = r
            /\ twilio' = IF Returned(r) THEN r[2] ELSE twilio

\* self.twilio_notifier.twilio_phone_number = ...
TwilioSetPhoneNumber ==
    /\ op = "idle"
    /\ twilio # None
    /\ \E phone \in TwilioPhoneNumbers :
        twilio' = <<twilio[1], [twilio[2] EXCEPT !.twilio_phone_number = phone]>>
    /\ UNCHANGED <<op, args, calls, result>>

TwilioSendSms ==
    /\ op = "idle"
    /\ twilio # None
    /\ \E to \in PhoneNumbers, message \in SmsBodies, outcome \in TwilioOutcomes :
        LET r == twilio_send_sms_notification(twilio, to, message, outcome)
        IN  /\ op' = "twilio.send_sms_notification"
            /\ args' = [phone_number |-> to, message |-> message, outcome |-> outcome]
            /\ calls' = r.calls
            /\ result' = r.result
            /\ UNCHANGED twilio

TwilioSendEmail ==
    /\ op = "idle"
    /\ twilio # None
    /\ \E email \in EmailRequests :
        LET r == twilio_send_email_notification(twilio, email)
        IN  /\ op' = "twilio.send_email_notification"
            /\ args' = email
            /\ calls' = r.calls
            /\ result' = r.result
            /\ UNCHANGED twilio

TwilioSendPush ==
    /\ op = "idle"
    /\ twilio # None
    /\ \E push \in TwilioPushRequests :
        LET r == twilio_send_push_notification(twilio, push)
        IN  /\ op' = "twilio.send_push_notification"
            /\ args' = push
            /\ calls' = r.calls
            /\ result' = r.result
            /\ UNCHANGED twilio

\* The call is over: its outcome is with the caller and nothing of the call
\* is kept (no cross-call state); only the notifier the caller holds stays.
CallReturns ==
    /\ op # "idle"
    /\ op' = "idle"
    /\ args' = [none |-> TRUE]
    /\ calls' = << >>
    /\ result' = Return(None)
    /\ UNCHANGED twilio

Next ==
    \/ SendPinpointPushNotification
    \/ PrepareCustomData
    \/ GetPinpointEndpoint
    \/ GetPinpointUserEndpoints
    \/ TwilioConstruct
    \/ TwilioSetPhoneNumber
    \/ TwilioSendSms
    \/ TwilioSendEmail
    \/ TwilioSendPush
    \/ CallReturns

Spec == Init /\ [][Next]_vars

(***************************************************************************)
(* What a finished send_pinpoint_push_notification left with the           *)
(* transport: the envelope, its three messages and their decoded payloads. *)
(***************************************************************************)
Sent == op = "send_pinpoint_push_notification"
Request == args.request
Envelope == calls[1].MessageRequest
MessageConfiguration == Get(Envelope, "MessageConfiguration")
APNSMessage == Get(MessageConfiguration, "APNSMessage")
GCMMessage == Get(MessageConfiguration, "GCMMessage")
DefaultMessage == Get(MessageConfiguration, "DefaultPushNotificationMessage")
ApnsPayload == json_loads(Get(APNSMessage, "RawContent"))
GcmPayload == json_loads(Get(GCMMessage, "RawContent"))
HasValue(d, k, v) == Has(d, k) /\ Get(d, k) = v
IsDict(v) == v[1] = "dict"

(***************************************************************************)
(* C1.  A silent push carries no visible alert: the aps block of the       *)
(* decoded APNS payload has no "alert" key and has content-available = 1,  *)
(* and the decoded GCM payload has no "notification" key and has           *)
(* content_available = 1, whatever the title, body, urls and custom_data.  *)
(***************************************************************************)
C1_SilentPushHasNoAlert ==
    (Sent /\ Request.silent_push) =>
        /\ Has(ApnsPayload, "aps")
        /\ IsDict(Get(ApnsPayload, "aps"))
        /\ ~Has(Get(ApnsPayload, "aps"), "alert")
        /\ HasValue(Get(ApnsPayload, "aps"), "content-available", PyInt(1))
        /\ ~Has(GcmPayload, "notification")
        /\ HasValue(GcmPayload, "content_available", PyInt(1))

(***************************************************************************)
(* C2.  With a deep link (a non-empty deep_link_url) the Action of the     *)
(* APNS, GCM and default messages is "DEEP_LINK" and each has Url equal to *)
(* the deep link; without one (None, or the empty string, which the code   *)
(* treats alike) the Action of all three is "OPEN_APP" and none has a Url. *)
(***************************************************************************)
C2_ActionAndUrlAgree ==
    Sent =>
        \A m \in {APNSMessage, GCMMessage, DefaultMessage} :
            IF Truthy(Request.deep_link_url)
                THEN /\ HasValue(m, "Action", PyStr("DEEP_LINK"))
                     /\ HasValue(m, "Url", Request.deep_link_url)
                ELSE /\ HasValue(m, "Action", PyStr("OPEN_APP"))
                     /\ ~Has(m, "Url")

C2_Witness ==
    /\ Sent
    /\ Request.deep_link_url = PyStr("app://home")
    /\ HasValue(DefaultMessage, "Url", PyStr("app://home"))
    /\ HasValue(APNSMessage, "Action", PyStr("DEEP_LINK"))
    /\ HasValue(GCMMessage, "Action", PyStr("DEEP_LINK"))

(***************************************************************************)
(* C3.  _prepare_custom_data yields a map with the keys "deeplink" and     *)
(* "image_url", holding the given deep_link_url and image_url (None, JSON  *)
(* null, when the input is None); a value the caller supplied under either *)
(* key is overwritten, every other caller key keeps its value and no other *)
(* key appears; and a map already enriched with the same two inputs comes  *)
(* back unchanged.                                                         *)
(***************************************************************************)
Prepared == op = "_prepare_custom_data"
CallerMap == PyOr(args.custom_data, PyDict(EmptyMap))
C3_EnrichedCustomData ==
    Prepared =>
        LET e == result[2]
        IN  /\ Returned(result)
            /\ HasValue(e, "deeplink", args.deep_link_url)
            /\ HasValue(e, "image_url", args.image_url)
            /\ (args.deep_link_url = None => JsonEncode(Get(e, "deeplink")) = <<"null">>)
            /\ (args.image_url = None => JsonEncode(Get(e, "image_url")) = <<"null">>)
            /\ DOMAIN e[2] = DOMAIN CallerMap[2] \cup {"deeplink", "image_url"}
            /\ \A k \in DOMAIN CallerMap[2] \ {"deeplink", "image_url"} :
                   Get(e, k) = Get(CallerMap, k)
            /\ ( ( /\ HasValue(CallerMap, "deeplink", args.deep_link_url)
                   /\ HasValue(CallerMap, "image_url", args.image_url) )
                 => e = args.custom_data )

\* A caller map with its own "deeplink" and another key, enriched with a
\* different deep link and no image.
C3_Witness ==
    /\ Prepared
    /\ args.custom_data # None
    /\ HasValue(args.custom_data, "deeplink", PyStr("app://old"))
    /\ Has(args.custom_data, "k")
    /\ args.deep_link_url = PyStr("app://home")
    /\ args.image_url = None
    /\ HasValue(result[2], "deeplink", PyStr("app://home"))
    /\ HasValue(result[2], "image_url", None)
    /\ HasValue(result[2], "k", PyStr("v"))

(***************************************************************************)
(* C4.  As claimed: given N target ids in endpoint_ids, the Endpoints map  *)
(* of the submitted envelope has exactly N keys, one per id, each mapped   *)
(* to an empty attribute map.                                              *)
(***************************************************************************)
EndpointIdSet == {Request.endpoint_ids[i] : i \in 1..Len(Request.endpoint_ids)}
C4_EndpointsHaveNKeys ==
    Sent =>
        LET eps == Get(Envelope, "Endpoints")
        IN  /\ Cardinality(DOMAIN eps[2]) = Len(Request.endpoint_ids)
            /\ DOMAIN eps[2] = EndpointIdSet
            /\ \A e \in DOMAIN eps[2] : Get(eps, e) = PyDict(EmptyMap)

(***************************************************************************)
(* C4, amended.  The Endpoints map has exactly one key per distinct target *)
(* id of endpoint_ids, each mapped to an empty attribute map: N keys for N *)
(* pairwise distinct ids (N = 0 included), fewer when an id is repeated.   *)
(***************************************************************************)
C4_EndpointsOnePerDistinctId ==
    Sent =>
        LET eps == Get(Envelope, "Endpoints")
            ids == Request.endpoint_ids
            distinct == \A i, j \in 1..Len(ids) : ids[i] = ids[j] => i = j
        IN  /\ IsDict(eps)
            /\ DOMAIN eps[2] = EndpointIdSet
            /\ \A e \in DOMAIN eps[2] : Get(eps, e) = PyDict(EmptyMap)
            /\ (distinct => Cardinality(DOMAIN eps[2]) = Len(ids))
            /\ (~distinct => Cardinality(DOMAIN eps[2]) < Len(ids))

C4_Witness ==
    /\ Sent
    /\ Request.endpoint_ids = <<"e1", "e2">>
    /\ DOMAIN Get(Envelope, "Endpoints")[2] = {"e1", "e2"}

(***************************************************************************)
(* C5.  A visible push (silent_push false) with an image: the aps block of *)
(* the decoded APNS payload has mutable-content = 1 and alert = {title,    *)
(* body}, and the notification block of the decoded GCM payload is {title, *)
(* body, image} with the image URL; without an image, aps has no           *)
(* mutable-content key and the notification block no image key.            *)
(***************************************************************************)
C5_ImageInVisiblePush ==
    (Sent /\ ~Request.silent_push) =>
        LET alert == PyDict("title" :> Request.title @@ "body" :> Request.body)
        IN  /\ Has(ApnsPayload, "aps")
            /\ IsDict(Get(ApnsPayload, "aps"))
            /\ Has(GcmPayload, "notification")
            /\ IF Truthy(Request.image_url)
                   THEN /\ HasValue(Get(ApnsPayload, "aps"), "mutable-content", PyInt(1))
                        /\ HasValue(Get(ApnsPayload, "aps"), "alert", alert)
                        /\ Get(GcmPayload, "notification") =
                               DictSet(alert, "image", Request.image_url)
                   ELSE /\ ~Has(Get(ApnsPayload, "aps"), "mutable-content")
                        /\ ~Has(Get(GcmPayload, "notification"), "image")

(***************************************************************************)
(* C6.  get_pinpoint_endpoint and get_pinpoint_user_endpoints make their   *)
(* one look-up and hand back the transport's response unchanged; a         *)
(* NotFoundException becomes the result {"error": <its message>}, nothing  *)
(* raised; any other failure reaches the caller as it was.  A              *)
(* NotFoundException met by send_pinpoint_push_notification reaches the    *)
(* caller as it was.                                                       *)
(***************************************************************************)
LookedUp == op \in {"get_pinpoint_endpoint", "get_pinpoint_user_endpoints"}
C6_NotFoundTranslatedOnlyByLookups ==
    /\ LookedUp =>
          /\ Len(calls) = 1
          /\ calls[1].method = (IF op = "get_pinpoint_endpoint"
                                    THEN "get_endpoint" ELSE "get_user_endpoints")
          /\ IF Returned(args.outcome)
                 THEN result = args.outcome
                 ELSE IF args.outcome[2].type = "NotFoundException"
                 THEN result = Return(PyDict("error" :> PyStr(args.outcome[2].message)))
                 ELSE result = args.outcome
    /\ (Sent /\ Raised(args.outcome)) => result = args.outcome

C6_Witness ==
    /\ op = "get_pinpoint_user_endpoints"
    /\ args.outcome = Raise(NotFoundException)
    /\ result = Return(PyDict("error" :> PyStr("Resource not found")))

(***************************************************************************)
(* C7.  A send_pinpoint_push_notification makes exactly one transport      *)
(* call, send_messages, with the given application id and the built        *)
(* envelope (Endpoints and the three messages); what the transport         *)
(* returned is returned verbatim, and a transport failure reaches the      *)
(* caller as it was, with no second call.                                  *)
(***************************************************************************)
C7_OneSendMessagesCall ==
    Sent =>
        /\ Len(calls) = 1
        /\ calls[1].method = "send_messages"
        /\ calls[1].ApplicationId = Request.application_id
        /\ DOMAIN Envelope[2] = {"Endpoints", "MessageConfiguration"}
        /\ DOMAIN MessageConfiguration[2] =
               {"APNSMessage", "GCMMessage", "DefaultPushNotificationMessage"}
        /\ DOMAIN Get(Envelope, "Endpoints")[2] = EndpointIdSet
        /\ result = args.outcome

C7_Witness ==
    /\ Sent
    /\ args.outcome = Raise(TooManyRequestsException)
    /\ result = Raise(TooManyRequestsException)
    /\ Len(calls) = 1
    /\ calls[1].ApplicationId = PyStr("app-2")

(***************************************************************************)
(* C8.  TwilioNotifier.send_sms_notification on an instance with no origin *)
(* number raises ValueError("Twilio phone number must be provided for      *)
(* sending SMS.") and makes no transport call; with an origin number it    *)
(* makes the one create_message call (from the origin number, to the       *)
(* given number, with the given body) and returns the message identifier   *)
(* the transport assigned.                                                 *)
(***************************************************************************)
SmsSent == op = "twilio.send_sms_notification"
C8_SmsNeedsOriginNumber ==
    SmsSent =>
        IF ~Truthy(twilio[2].twilio_phone_number)
            THEN /\ calls = << >>
                 /\ result = Raise(ValueError(
                        "Twilio phone number must be provided for sending SMS."))
            ELSE /\ Len(calls) = 1
                 /\ calls[1].method = "create_message"
                 /\ calls[1].from_ = twilio[2].twilio_phone_number
                 /\ calls[1].to = args.phone_number
                 /\ calls[1].body = args.message
                 /\ IF Returned(args.outcome)
                        THEN result = Return(Get(args.outcome[2], "sid"))
                        ELSE result = args.outcome

C8_Witness ==
    /\ SmsSent
    /\ twilio[2].twilio_phone_number = None
    /\ calls = << >>
    /\ Raised(result)
    /\ result[2].type = "ValueError"

(***************************************************************************)
(* C9.  TwilioNotifier.send_email_notification and send_push_notification  *)
(* raise NotImplementedError whatever their arguments and whatever the     *)
(* instance holds, and make no transport call.                             *)
(***************************************************************************)
C9_EmailAndPushNotSupported ==
    op \in {"twilio.send_email_notification", "twilio.send_push_notification"} =>
        /\ Raised(result)
        /\ result[2].type = "NotImplementedError"
        /\ calls = << >>

C9_Witness ==
    /\ op = "twilio.send_push_notification"
    /\ twilio[2].twilio_phone_number # None
    /\ args.device = PyStr("test_device")
    /\ result = Raise(NotImplementedError)

(***************************************************************************)
(* C10.  Constructing a TwilioNotifier with the account SID or the auth    *)
(* token missing (None or empty) raises ValueError, its message naming the *)
(* missing credential or credentials, and yields no instance; with both    *)
(* given it yields the instance, with or without an origin number.         *)
(***************************************************************************)
Constructed == op = "TwilioNotifier"
C10_ConstructionNeedsCredentials ==
    Constructed =>
        LET noSid == args.account_sid \in {None, PyStr("")}
            noToken == args.auth_token \in {None, PyStr("")}
        IN  /\ (noSid /\ noToken) =>
                   result = Raise(ValueError(
                       "Twilio Account SID and Auth Token must be provided."))
            /\ (noSid /\ ~noToken) =>
                   result = Raise(ValueError("Twilio Account SID must be provided."))
            /\ (~noSid /\ noToken) =>
                   result = Raise(ValueError("Twilio Auth Token must be provided."))
            /\ (~noSid /\ ~noToken) =>
                   /\ result = Return(TwilioInstance(args.account_sid, args.auth_token,
                                                     args.twilio_phone_number))
                   /\ twilio = result[2]

C10_Witness ==
    /\ Constructed
    /\ args.account_sid = PyStr("")
    /\ args.auth_token = PyStr("token")
    /\ Raised(result)
    /\ result[2].message = "Twilio Account SID must be provided."

(***************************************************************************)
(* C11.  The root of the decoded APNS payload holds, under "aps", the      *)
(* block the adapter built (sound = "default"; content-available = 1 for a *)
(* silent push, else alert = {title, body}; mutable-content = 1 with an    *)
(* image; nothing else), and beside it every key of the enriched custom    *)
(* data with its value: no caller key replaces or alters the aps block and *)
(* no custom key sits inside it.                                           *)
(***************************************************************************)
RequestCallerMap == PyOr(Request.custom_data, PyDict(EmptyMap))
EnrichedKeys == DOMAIN RequestCallerMap[2] \cup {"deeplink", "image_url"}
EnrichedValue(k) ==
    CASE k = "deeplink"  -> Request.deep_link_url
      [] k = "image_url" -> Request.image_url
      [] OTHER           -> Get(RequestCallerMap, k)
C11_ApsBlockBesideCustomKeys ==
    Sent =>
        /\ DOMAIN ApnsPayload[2] = {"aps"} \cup EnrichedKeys
        /\ \A k \in EnrichedKeys : HasValue(ApnsPayload, k, EnrichedValue(k))
        /\ IsDict(Get(ApnsPayload, "aps"))
        /\ LET aps == Get(ApnsPayload, "aps")
           IN  /\ HasValue(aps, "sound", PyStr("default"))
               /\ IF Request.silent_push
                      THEN HasValue(aps, "content-available", PyInt(1))
                      ELSE HasValue(aps, "alert",
                               PyDict("title" :> Request.title @@ "body" :> Request.body))
               /\ Truthy(Request.image_url) => HasValue(aps, "mutable-content", PyInt(1))
               /\ DOMAIN aps[2] \subseteq
                      {"sound", "alert", "content-available", "mutable-content"}
               /\ DOMAIN aps[2] \cap (EnrichedKeys \ {"aps"}) = {}

(***************************************************************************)
(* C12.  The decoded GCM payload has the key "priority", equal to the      *)
(* given priority, exactly when a priority (a non-empty string) is given,  *)
(* and the key "time_to_live", equal to the given value, exactly when      *)
(* time_to_live is not None (0 included), for a silent and for a visible   *)
(* push alike; its "data" block is the enriched custom data with "title"   *)
(* and "body" set to the title and body of the request, a caller "title"   *)
(* being overwritten.                                                      *)
(***************************************************************************)
C12_GcmPriorityTtlAndData ==
    Sent =>
        /\ IF Truthy(Request.priority)
               THEN HasValue(GcmPayload, "priority", Request.priority)
               ELSE ~Has(GcmPayload, "priority")
        /\ IF Request.time_to_live # None
               THEN HasValue(GcmPayload, "time_to_live", Request.time_to_live)
               ELSE ~Has(GcmPayload, "time_to_live")
        /\ Has(GcmPayload, "data")
        /\ LET data == Get(GcmPayload, "data")
           IN  /\ IsDict(data)
               /\ DOMAIN data[2] = EnrichedKeys \cup {"title", "body"}
               /\ HasValue(data, "title", Request.title)
               /\ HasValue(data, "body", Request.body)
               /\ \A k \in EnrichedKeys \ {"title", "body"} :
                      Get(data, k) = EnrichedValue(k)

\* A silent push with time_to_live = 0, a priority and a caller "title".
C12_Witness ==
    /\ Sent
    /\ Request.silent_push
    /\ Request.time_to_live = PyInt(0)
    /\ Request.priority = PyStr("high")
    /\ Request.custom_data # None
    /\ HasValue(Request.custom_data, "title", PyStr("caller title"))
    /\ HasValue(GcmPayload, "time_to_live", PyInt(0))
    /\ HasValue(GcmPayload, "priority", PyStr("high"))
    /\ HasValue(Get(GcmPayload, "data"), "title", PyStr("Hi"))

=============================================================================
